---------------------------- MODULE Spec2Model ----------------------------
(***************************************************************************)
(* Model of the maternity-statistics data pipeline of src/process_data.py: *)
(* the name normaliser, the geo and population joins, the row filter, the  *)
(* rate calculator and the entry points that compose them.                 *)
(*                                                                         *)
(* A table (pandas DataFrame) is a sequence of rows; a row is a function   *)
(* from column names to cell values.  A string that the code searches with *)
(* a regular expression (Org_Name) is a sequence of words, so that "is a   *)
(* substring of" is a fact of the model.  A floating point cell is a       *)
(* record [k, n, d]: k = "num" for the rational n/d in lowest terms,       *)
(* k = "nan" for NaN and k = "inf" for +infinity (values are counts, never *)
(* negative).  Rounding is not modelled: arithmetic is exact.              *)
(***************************************************************************)
EXTENDS Integers, Sequences, FiniteSets, TLC

VARIABLES
    data_source,   \* config.data_source: year -> rows of that year's csv file
    locations,     \* rows of data/locations.csv
    pop_source,    \* config.pop_source: year -> rows of the population sheet
    df,            \* the DataFrame object a direct caller holds and passes in
    df_other,      \* a second DataFrame object of the caller (df_all_submitters)
    pre,           \* contents of <<df, df_other>> when the last call was made
    call,          \* the last call: its name and arguments
    ret            \* what the last call returned or raised

vars == <<data_source, locations, pop_source, df, df_other, pre, call, ret>>

---------------------------------------------------------------------------
(* Bounds of the model *)

MaxRows == 2

MaxValue == 2

---------------------------------------------------------------------------
(* Floating point cells *)

NaN == [k |-> "nan", n |-> 0, d |-> 1]

Inf == [k |-> "inf", n |-> 0, d |-> 1]

RECURSIVE GCD(_, _)
GCD(a, b) == IF b = 0 THEN a ELSE GCD(b, a % b)

Frac(n, d) == LET g == GCD(n, d) IN [k |-> "num", n |-> n \div g, d |-> d \div g]

Num(n) == [k |-> "num", n |-> n, d |-> 1]

\* numpy true division of two float cells: x/0 is inf, 0/0 and NaN operands are NaN
FDiv(a, b) ==
    IF a.k = "nan" \/ b.k = "nan" THEN NaN
    ELSE IF a.k = "inf" THEN (IF b.k = "inf" THEN NaN ELSE Inf)
    ELSE IF b.k = "inf" THEN Num(0)
    ELSE IF b.n = 0 THEN (IF a.n = 0 THEN NaN ELSE Inf)
    ELSE Frac(a.n * b.d, a.d * b.n)

\* a float cell times a positive literal (the * 1000 and * 100 of the code)
FMul(a, c) == IF a.k = "num" THEN Frac(a.n * c, a.d) ELSE a

\* a + b where NaN operands are skipped (Series.sum / DataFrame.sum, skipna=True)
FAddSkipNa(a, b) ==
    IF a.k = "nan" THEN b
    ELSE IF b.k = "nan" THEN a
    ELSE IF a.k = "inf" \/ b.k = "inf" THEN Inf
    ELSE Frac(a.n * b.d + b.n * a.d, a.d * b.d)

---------------------------------------------------------------------------
(* Rows and tables *)

\* row r with the columns of s added or overwritten
Extend(r, s) ==
    [c \in (DOMAIN r) \cup (DOMAIN s) |-> IF c \in DOMAIN s THEN s[c] ELSE r[c]]

RECURSIVE Flatten(_)
Flatten(ss) == IF ss = <<>> THEN <<>> ELSE Head(ss) \o Flatten(Tail(ss))

\* every sequence over S of length at most n
SeqsUpTo(S, n) == UNION {[1..m -> S] : m \in 0..n}

Raise(type, key) == [status |-> "raise", error |-> type, key |-> key, table |-> <<>>]

Return(t) == [status |-> "ok", error |-> "", key |-> "", table |-> t]

---------------------------------------------------------------------------
(* Name Normalizer *)

CR(region) == region \o <<"COMMISSIONING", "REGION">>

\* name_dict, in insertion order
name_dict == <<
    [old |-> CR(<<"LONDON">>), new |-> <<"London">>],
    [old |-> CR(<<"SOUTH", "WEST">>), new |-> <<"South", "West">>],
    [old |-> CR(<<"SOUTH", "EAST">>), new |-> <<"South", "East">>],
    [old |-> CR(<<"MIDLANDS">>), new |-> <<"Midlands">>],
    [old |-> CR(<<"EAST", "OF", "ENGLAND">>), new |-> <<"East", "of", "England">>],
    [old |-> CR(<<"NORTH", "WEST">>), new |-> <<"North", "West">>],
    [old |-> CR(<<"NORTH", "EAST", "AND", "YORKSHIRE">>),
     new |-> <<"North", "East", "and", "Yorkshire">>],
    [old |-> <<"ALL", "SUBMITTERS">>, new |-> <<"All", "Submitters">>] >>

\* re.sub(pattern, repl, s): every non-overlapping occurrence, left to right
RECURSIVE ReSub(_, _, _)
ReSub(pattern, repl, s) ==
    IF Len(s) < Len(pattern) THEN s
    ELSE IF SubSeq(s, 1, Len(pattern)) = pattern
         THEN repl \o ReSub(pattern, repl, SubSeq(s, Len(pattern) + 1, Len(s)))
         ELSE <<Head(s)>> \o ReSub(pattern, repl, Tail(s))

\* Series.replace(name_dict, regex=True) on one cell: the pairs are applied in order
RECURSIVE ReplaceRegex(_, _)
ReplaceRegex(pairs, s) ==
    IF pairs = <<>> THEN s
    ELSE ReplaceRegex(Tail(pairs), ReSub(Head(pairs).old, Head(pairs).new, s))

\* the table map_org_name leaves in the object it was given
MapOrgNameRows(t) ==
    [i \in DOMAIN t |-> [t[i] EXCEPT !.Org_Name = ReplaceRegex(name_dict, @)]]

dimension_replace_dict(x) ==
    CASE x = "SmokingAtBooking" -> "SmokingStatusGroupBooking"
      [] x = "MethodOfDelivery" -> "DeliveryMethodBabyGroup"
      [] x = "FolicAcidStatusGroupBooking" -> "FolicAcidSupplement"
      [] OTHER -> x

measure_replace_dict(x) ==
    CASE x = "Missing Value / Value outside reporting parameters" -> "Missing value"
      [] x = "Missing Value/Value outside reporting parameters" -> "Missing value"
      [] x = "Missing value / Value outside reporting parameters" -> "Missing value"
      [] OTHER -> x

deprivation_replace_dict(x) ==
    CASE x = "2" -> "02" [] x = "3" -> "03" [] x = "4" -> "04" [] x = "5" -> "05"
      [] x = "6" -> "06" [] x = "7" -> "07" [] x = "8" -> "08" [] x = "9" -> "09"
      [] OTHER -> x

\* the table make_values_consistant leaves in the object it was given
MakeValuesConsistantRows(t) ==
    LET dims == [i \in DOMAIN t |->
                    [t[i] EXCEPT !.Dimension = dimension_replace_dict(@)]]
        meas == [i \in DOMAIN t |->
                    [dims[i] EXCEPT !.Measure = measure_replace_dict(@)]]
    IN [i \in DOMAIN t |->
           IF meas[i].Dimension = "DeprivationDecileAtBooking"
           THEN [meas[i] EXCEPT !.Measure = deprivation_replace_dict(@)]
           ELSE meas[i]]

---------------------------------------------------------------------------
(* Row Filter *)

filter_for_measure_and_level(t, dimension, org_level) ==
    LET df_filtered == SelectSeq(t, LAMBDA r : r.Org_Level = org_level)
    IN SelectSeq(df_filtered, LAMBDA r : r.Dimension = dimension)

---------------------------------------------------------------------------
(* Sort orders *)

\* the organisation names of the model in the order Python sorts their strings
NameCollation == <<
    <<"ALL", "SUBMITTERS">>, <<"All", "Submitters">>, <<"BARTS", "HEALTH">>,
    CR(<<"LONDON">>), <<"London">>, CR(<<"MIDLANDS">>), <<"Midlands">>,
    <<"NHS">> \o CR(<<"LONDON">>), <<"NHS", "London">> >>

\* the region codes of the model in the order Python sorts their strings
CodeCollation == << "E40000003", "E40000011" >>

\* position of x in the sorted list c (after the end when it is not listed)
Position(c, x) ==
    IF \E i \in DOMAIN c : c[i] = x THEN CHOOSE i \in DOMAIN c : c[i] = x
    ELSE Len(c) + 1

\* the rows of t in ascending order of keys[i], ties in their original order
StableSort(t, keys) ==
    LET top == IF DOMAIN t = {} THEN 0
               ELSE CHOOSE k \in {keys[i] : i \in DOMAIN t} :
                        \A i \in DOMAIN t : keys[i] <= k
        idx == [i \in 1..Len(t) |-> i]
    IN Flatten([k \in 1..(top + 1) |->
                   LET at == SelectSeq(idx, LAMBDA i : keys[i] = k - 1)
                   IN [j \in 1..Len(at) |-> t[at[j]]]])

\* the distinct values of vals in order of first occurrence
RECURSIVE Unique(_)
Unique(vals) ==
    IF vals = <<>> THEN <<>>
    ELSE LET init == Unique(SubSeq(vals, 1, Len(vals) - 1))
             last == vals[Len(vals)]
         IN IF \E i \in DOMAIN init : init[i] = last THEN init
            ELSE Append(init, last)

---------------------------------------------------------------------------
(* Rate Calculator, ordinary path *)

\* DataFrame.pivot(columns="Measure", values="Value", index="Org_Name")
\* followed by reset_index(): one row per organisation, sorted by name, one
\* column per measure of the table, NaN where the organisation has no row
\* for the measure.  pandas refuses to reshape duplicate (index, column) pairs.
Unstack(t) ==
    LET names == Unique([i \in 1..Len(t) |-> t[i].Org_Name])
        measures == {t[i].Measure : i \in 1..Len(t)}
        cell(nm, m) ==
            LET at == {i \in 1..Len(t) : t[i].Org_Name = nm /\ t[i].Measure = m}
            IN IF at = {} THEN NaN
               ELSE Num(t[CHOOSE i \in at : \A j \in at : j <= i].Value)
        rows == [i \in 1..Len(names) |->
                    Extend([Org_Name |-> names[i]],
                           [m \in measures |-> cell(names[i], m)])]
    IN Return(StableSort(rows,
           [i \in 1..Len(names) |-> Position(NameCollation, names[i])]))

\* a pivot that keeps the last of the duplicate values instead of refusing them
PivotLastWins(t) == Unstack(t)

Pivot(t) ==
    IF \E i, j \in 1..Len(t) :
           i # j /\ t[i].Org_Name = t[j].Org_Name /\ t[i].Measure = t[j].Measure
    THEN Raise("ValueError", "Index contains duplicate entries, cannot reshape")
    ELSE Unstack(t)

\* df_pivoted[<list of columns>].sum(axis=1) for one row
RECURSIVE RowSum(_, _)
RowSum(row, columns) ==
    IF columns = {} THEN Num(0)
    ELSE LET c == CHOOSE x \in columns : TRUE
         IN FAddSkipNa(row[c], RowSum(row, columns \ {c}))

\* numerator_sum / denominator_sum for one row
Rate(row, numerator, denominator) ==
    FDiv(RowSum(row, numerator), RowSum(row, denominator))

\* the columns of a pivoted table (an empty table has lost its measure columns)
MeasureColumns(t) == UNION {DOMAIN t[i] \ {"Org_Name"} : i \in 1..Len(t)}

\* a rate calculator that looks the configuration up with an empty default
\* instead of indexing it: a missing entry becomes two empty sums
get_rates_default(t, dimension, measure_dict, org_level) ==
    LET df_pivoted == Pivot(t)
        known == org_level \in DOMAIN measure_dict
                 /\ dimension \in DOMAIN measure_dict[org_level]
        numerator == IF known THEN measure_dict[org_level][dimension].numerator
                     ELSE {}
        denominator == IF known THEN measure_dict[org_level][dimension].denominator
                       ELSE {}
    IN IF df_pivoted.status = "raise" THEN df_pivoted
       ELSE Return([i \in 1..Len(df_pivoted.table) |->
                Extend(df_pivoted.table[i],
                       [Rate |-> FDiv(RowSum(df_pivoted.table[i], numerator),
                                      RowSum(df_pivoted.table[i], denominator))])])

get_rates(t, dimension, measure_dict, org_level) ==
    LET df_pivoted == Pivot(t)
    IN IF df_pivoted.status = "raise" THEN df_pivoted
       ELSE IF org_level \notin DOMAIN measure_dict THEN Raise("KeyError", org_level)
       ELSE IF dimension \notin DOMAIN measure_dict[org_level]
            THEN Raise("KeyError", dimension)
       ELSE LET numerator == measure_dict[org_level][dimension].numerator
                denominator == measure_dict[org_level][dimension].denominator
                columns == MeasureColumns(df_pivoted.table)
            IN IF ~(numerator \subseteq columns)
               THEN Raise("KeyError", "numerator columns not in index")
               ELSE IF ~(denominator \subseteq columns)
               THEN Raise("KeyError", "denominator columns not in index")
               ELSE Return([i \in 1..Len(df_pivoted.table) |->
                        Extend(df_pivoted.table[i],
                               [Rate |-> Rate(df_pivoted.table[i],
                                              numerator, denominator)])])

---------------------------------------------------------------------------
(* Configuration (config.py) *)

\* config.data_source.keys(), in iteration order
Years == << "2022-23", "2023-24" >>

special_dimensions == {"TotalBabies", "TotalDeliveries"}

\* config.pop_source[year][2]: the grouping columns of the population sheet
PopName == "NSHER 2023 Name"

PopCode == "NHSER 2023 Code"

\* config.region_order: organisation name -> sort rank
region_order == <<
    <<"London">>, <<"South", "West">>, <<"South", "East">>, <<"Midlands">>,
    <<"East", "of", "England">>, <<"North", "West">>,
    <<"North", "East", "and", "Yorkshire">> >>

---------------------------------------------------------------------------
(* Rate Calculator, special path, and Geo Joiner *)

\* df_pop.groupby([name, code])["Total"].sum().reset_index(): one row per
\* distinct (name, code), sorted by the group key
PopAgg(df_pop) ==
    LET keys == Unique([i \in 1..Len(df_pop) |->
                    <<df_pop[i][PopName], df_pop[i][PopCode]>>])
        RECURSIVE Total(_, _)
        Total(key, i) ==
            IF i = 0 THEN 0
            ELSE Total(key, i - 1)
                 + (IF <<df_pop[i][PopName], df_pop[i][PopCode]>> = key
                    THEN df_pop[i].Total ELSE 0)
        rows == [i \in 1..Len(keys) |->
                    [c \in {PopName, PopCode, "Total"} |->
                        CASE c = PopName -> keys[i][1]
                          [] c = PopCode -> keys[i][2]
                          [] OTHER -> Num(Total(keys[i], Len(df_pop)))]]
    IN StableSort(rows, [i \in 1..Len(keys) |->
           Position(NameCollation, keys[i][1]) * (Len(CodeCollation) + 2)
           + Position(CodeCollation, keys[i][2])])

\* the cells a left merge gives a row that has no match in the population table
NoPop ==
    [c \in {PopName, PopCode, "Total"} |->
        CASE c = PopName -> <<"NaN">> [] c = PopCode -> "NaN" [] OTHER -> NaN]

join_pop_data(t, year) ==
    LET df_pop_agg == PopAgg(pop_source[year])
        joined(l) ==
            LET m == SelectSeq(df_pop_agg, LAMBDA r : r[PopName] = l.Org_Name)
            IN IF m = <<>> THEN <<Extend(l, NoPop)>>
               ELSE [j \in 1..Len(m) |-> Extend(l, m[j])]
        joined_df == Flatten([i \in 1..Len(t) |-> joined(t[i])])
    IN [i \in 1..Len(joined_df) |->
           Extend(joined_df[i],
                  [Rate |-> FDiv(Num(joined_df[i].Value), joined_df[i].Total)])]

\* the cells a left merge gives a row whose Org_Code is not in locations.csv
NoLocation == [org_code |-> "NaN", latitude |-> "NaN", longitude |-> "NaN"]

join_lat_lon_data(t) ==
    LET merged(l) ==
            LET m == SelectSeq(locations, LAMBDA r : r.org_code = l.Org_Code)
            IN IF m = <<>> THEN <<Extend(l, NoLocation)>>
               ELSE [j \in 1..Len(m) |-> Extend(l, m[j])]
    IN Flatten([i \in 1..Len(t) |-> merged(t[i])])

\* joined_df["Rate"] * 1000
PerThousand(t) == [i \in 1..Len(t) |-> [t[i] EXCEPT !.Rate = FMul(@, 1000)]]

---------------------------------------------------------------------------
(* Assembler and entry points *)

\* df_rates.merge(df[["Org_Name", "latitude", "longitude"]].drop_duplicates(),
\*                on="Org_Name", how="left", suffixes=("", "_"))
MergeLatLon(df_rates, t) ==
    LET right == Unique([i \in 1..Len(t) |->
                     [Org_Name |-> t[i].Org_Name, latitude |-> t[i].latitude,
                      longitude |-> t[i].longitude]])
        lat(l) == IF "latitude" \in DOMAIN l THEN "latitude_" ELSE "latitude"
        lon(l) == IF "longitude" \in DOMAIN l THEN "longitude_" ELSE "longitude"
        cells(l, la, lo) ==
            [c \in {lat(l), lon(l)} |-> IF c = lat(l) THEN la ELSE lo]
        merged(l) ==
            LET m == SelectSeq(right, LAMBDA r : r.Org_Name = l.Org_Name)
            IN IF m = <<>> THEN <<Extend(l, cells(l, "NaN", "NaN"))>>
               ELSE [j \in 1..Len(m) |->
                        Extend(l, cells(l, m[j].latitude, m[j].longitude))]
    IN Flatten([i \in 1..Len(df_rates) |-> merged(df_rates[i])])

\* sort_values("Org_Name", key=lambda col: col.map(config.region_order)):
\* unranked names (NaN keys) go last
EnforceRegionOrder(t) ==
    StableSort(t, [i \in 1..Len(t) |-> Position(region_order, t[i].Org_Name)])

\* a percent column computed with the scale of the special path
WithPercentPerThousand(t) ==
    [i \in 1..Len(t) |-> Extend(t[i], [Percent |-> FMul(t[i].Rate, 1000)])]

\* df_rates["Percent"] = df_rates["Rate"] * 100
WithPercent(t) ==
    [i \in 1..Len(t) |-> Extend(t[i], [Percent |-> FMul(t[i].Rate, 100)])]

return_data_for_map(dimension, org_level, measure_dict, year) ==
    LET df0 == data_source[year]
        df1 == MapOrgNameRows(df0)
        df2 == MakeValuesConsistantRows(df1)
        df3 == join_lat_lon_data(df2)
        df4 == filter_for_measure_and_level(df3, dimension, org_level)
        rates == get_rates(df4, dimension, measure_dict, org_level)
        df_rates ==
            IF dimension \in special_dimensions
            THEN Return(PerThousand(join_pop_data(df4, year)))
            ELSE IF rates.status = "raise" THEN rates
            ELSE Return(WithPercent(rates.table))
    IN IF df_rates.status = "raise" THEN df_rates
       ELSE Return(EnforceRegionOrder(MergeLatLon(df_rates.table, df4)))

return_data_for_bar_chart(dimension, org_level, location, year) ==
    LET df0 == data_source[year]
        df1 == MapOrgNameRows(df0)
        df2 == MakeValuesConsistantRows(df1)
        df3 == filter_for_measure_and_level(df2, dimension, org_level)
    IN Return(SelectSeq(df3, LAMBDA r : r.Org_Name = location))

return_data_for_special_bar_chart(dimension, year) ==
    LET df0 == data_source[year]
        df1 == MapOrgNameRows(df0)
        df2 == MakeValuesConsistantRows(df1)
        df3 == filter_for_measure_and_level(df2, dimension, "NHS England (Region)")
    IN Return(PerThousand(join_pop_data(df3, year)))

\* pd.concat of every year's table, each row tagged with its year
CombinedDf ==
    Flatten([y \in 1..Len(Years) |->
        [i \in 1..Len(data_source[Years[y]]) |->
            Extend(data_source[Years[y]][i], [year |-> Years[y]])]])

\* the value the loop variable year keeps after the loop over the years
LoopYear == Years[Len(Years)]

return_data_for_time_series(dimension, org_level, location) ==
    LET level == IF dimension \in special_dimensions
                    /\ (org_level = "National" \/ org_level = "Provider")
                 THEN "NHS England (Region)" ELSE org_level
        df1 == filter_for_measure_and_level(CombinedDf, dimension, level)
        df2 == MapOrgNameRows(df1)
        df3 == MakeValuesConsistantRows(df2)
    IN IF dimension \notin special_dimensions
       THEN Return(SelectSeq(df3, LAMBDA r : r.Org_Name = location))
       ELSE Return(PerThousand(join_pop_data(df3, LoopYear)))

\* merge_total_submitters: the table returned, and the table left in the
\* df_all_submitters object (it gains the Percentage column)
AllSubmittersAfter(all) ==
    LET RECURSIVE Sum(_)
        Sum(i) == IF i = 0 THEN 0 ELSE Sum(i - 1) + all[i].Value
        total_all_submitters == Num(Sum(Len(all)))
    IN [i \in 1..Len(all) |->
           Extend(all[i],
                  [Percentage |-> FDiv(Num(all[i].Value), total_all_submitters)])]

merge_total_submitters(df_location, df_all_submitters) ==
    LET all == AllSubmittersAfter(df_all_submitters)
        RECURSIVE Sum(_)
        Sum(i) == IF i = 0 THEN 0 ELSE Sum(i - 1) + df_location[i].Value
        merged(l) ==
            LET m == SelectSeq(all, LAMBDA r : r.Measure = l.Measure)
            IN [j \in 1..Len(m) |->
                   Extend(l, [Percentage |-> m[j].Percentage])]
        df_merged == Flatten([i \in 1..Len(df_location) |-> merged(df_location[i])])
    IN [i \in 1..Len(df_merged) |->
           Extend(df_merged[i],
                  [c \in {"All Submitters Value"} |->
                      IF df_merged[i].Percentage.k = "num"
                      THEN Frac(df_merged[i].Percentage.n * Sum(Len(df_location)),
                                df_merged[i].Percentage.d)
                      ELSE df_merged[i].Percentage])]

---------------------------------------------------------------------------
(* Inputs of the model *)

Region == "NHS England (Region)"

\* an organisation as the source files name it: its name, code and level
Orgs == {
    [Org_Name |-> CR(<<"LONDON">>), Org_Code |-> "Y56", Org_Level |-> Region],
    [Org_Name |-> <<"BARTS", "HEALTH">>, Org_Code |-> "R1H", Org_Level |-> "Provider"] }

\* (dimension, measure) labels of the source files, historical alias included
Labels == {
    [Dimension |-> "SmokingAtBooking", Measure |-> "Smoker"],
    [Dimension |-> "SmokingStatusGroupBooking", Measure |-> "Smoker"],
    [Dimension |-> "SmokingStatusGroupBooking", Measure |-> "Non-smoker"],
    [Dimension |-> "TotalBabies", Measure |-> "All"] }

\* rows of a source file, each tagged with the year of the file it is in
FileRows ==
    {[file |-> y, row |-> Extend(Extend(o, l), [Value |-> v])] :
        y \in {Years[i] : i \in 1..Len(Years)}, o \in Orgs, l \in Labels,
        v \in {1, MaxValue}}

\* the source files that hold the rows of t
Files(t) ==
    [y \in {Years[i] : i \in 1..Len(Years)} |->
        LET mine == SelectSeq(t, LAMBDA x : x.file = y)
        IN [i \in 1..Len(mine) |-> mine[i].row]]

\* population sheets: London is the sum of two rows in the first year
PopFiles ==
    LET pop(name, code, total) ==
            [c \in {PopName, PopCode, "Total"} |->
                CASE c = PopName -> name [] c = PopCode -> code [] OTHER -> total]
    IN [y \in {Years[i] : i \in 1..Len(Years)} |->
           IF y = Years[1]
           THEN << pop(<<"London">>, "E40000003", 400),
                   pop(<<"Midlands">>, "E40000011", 3000),
                   pop(<<"London">>, "E40000003", 600) >>
           ELSE << pop(<<"London">>, "E40000003", 2000) >>]

LocationFile == <<
    [org_code |-> "Y56", latitude |-> "51.5", longitude |-> "-0.1"],
    [org_code |-> "R1H", latitude |-> "51.6", longitude |-> "-0.2"] >>

\* config.measure_dict: only the regional smoking rate is configured
ConfiguredMeasures ==
    [l \in {Region} |->
        [d \in {"SmokingStatusGroupBooking"} |->
            [numerator |-> {"Smoker"}, denominator |-> {"Smoker", "Non-smoker"}]]]

Dimensions == {"SmokingStatusGroupBooking", "TotalBabies"}

Levels == {Region, "Provider"}

Locations == {<<"London">>, <<"BARTS", "HEALTH">>}

NoArgs ==
    [op |-> "none", dimension |-> "", org_level |-> "", year |-> "",
     location |-> <<>>, measure_dict |-> <<>>]

Held == [df |-> df, df_other |-> df_other]

---------------------------------------------------------------------------
(* Entry points.  A run of the program serves one request: no entry point
   changes the files, so a later request would start from Init's state again. *)

Init ==
    /\ \E t \in SeqsUpTo(FileRows, MaxRows) : data_source = Files(t)
    /\ locations = LocationFile
    /\ pop_source = PopFiles
    /\ df = <<>>
    /\ df_other = <<>>
    /\ pre = Held
    /\ call = NoArgs
    /\ ret = Return(<<>>)

ReturnDataForMap ==
    \E dimension \in Dimensions, org_level \in Levels,
       year \in {Years[i] : i \in 1..Len(Years)} :
        /\ call.op = "none"
        /\ call' = [NoArgs EXCEPT !.op = "return_data_for_map",
                        !.dimension = dimension, !.org_level = org_level,
                        !.year = year, !.measure_dict = ConfiguredMeasures]
        /\ ret' = return_data_for_map(dimension, org_level, ConfiguredMeasures, year)
        /\ pre' = Held
        /\ UNCHANGED <<data_source, locations, pop_source, df, df_other>>

ReturnDataForBarChart ==
    \E dimension \in Dimensions, org_level \in Levels, location \in Locations,
       year \in {Years[i] : i \in 1..Len(Years)} :
        /\ call.op = "none"
        /\ call' = [NoArgs EXCEPT !.op = "return_data_for_bar_chart",
                        !.dimension = dimension, !.org_level = org_level,
                        !.year = year, !.location = location]
        /\ ret' = return_data_for_bar_chart(dimension, org_level, location, year)
        /\ pre' = Held
        /\ UNCHANGED <<data_source, locations, pop_source, df, df_other>>

ReturnDataForSpecialBarChart ==
    \E dimension \in Dimensions, year \in {Years[i] : i \in 1..Len(Years)} :
        /\ call.op = "none"
        /\ call' = [NoArgs EXCEPT !.op = "return_data_for_special_bar_chart",
                        !.dimension = dimension, !.org_level = Region,
                        !.year = year]
        /\ ret' = return_data_for_special_bar_chart(dimension, year)
        /\ pre' = Held
        /\ UNCHANGED <<data_source, locations, pop_source, df, df_other>>

ReturnDataForTimeSeries ==
    \E dimension \in Dimensions, org_level \in Levels, location \in Locations :
        /\ call.op = "none"
        /\ call' = [NoArgs EXCEPT !.op = "return_data_for_time_series",
                        !.dimension = dimension, !.org_level = org_level,
                        !.location = location]
        /\ ret' = return_data_for_time_series(dimension, org_level, location)
        /\ pre' = Held
        /\ UNCHANGED <<data_source, locations, pop_source, df, df_other>>

Next ==
    \/ ReturnDataForMap
    \/ ReturnDataForBarChart
    \/ ReturnDataForSpecialBarChart
    \/ ReturnDataForTimeSeries

Spec == Init /\ [][Next]_vars

---------------------------------------------------------------------------
(* The Rate Calculator's ordinary path called on a filtered table *)

Measures == {"Smoker", "Non-smoker"}

\* rows of a filtered table: one dimension, one level, normalised names
RateRows ==
    {[Org_Name |-> n, Org_Code |-> "Y", Org_Level |-> Region,
      Dimension |-> "SmokingStatusGroupBooking", Measure |-> m, Value |-> v] :
        n \in {<<"London">>, <<"Midlands">>}, m \in Measures, v \in 0..MaxValue}

\* measure configurations: every choice of non-empty measure sets for the
\* requested pair, and two that lack the requested level or dimension
MeasureDicts ==
    {[l \in {Region} |-> [d \in {"SmokingStatusGroupBooking"} |->
        [numerator |-> n, denominator |-> dn]]] :
            n \in (SUBSET Measures) \ {{}}, dn \in (SUBSET Measures) \ {{}}}
    \cup {[l \in {"Provider"} |-> [d \in {"SmokingStatusGroupBooking"} |->
            [numerator |-> {"Smoker"}, denominator |-> Measures]]],
          [l \in {Region} |-> [d \in {"TotalBabies"} |->
            [numerator |-> {"Smoker"}, denominator |-> Measures]]]}

InitRates ==
    /\ data_source = Files(<<>>)
    /\ locations = LocationFile
    /\ pop_source = PopFiles
    /\ df \in SeqsUpTo(RateRows, MaxRows)
    /\ df_other = <<>>
    /\ pre = Held
    /\ call = NoArgs
    /\ ret = Return(<<>>)

GetRates ==
    \E measure_dict \in MeasureDicts :
        /\ call' = [NoArgs EXCEPT !.op = "get_rates",
                        !.dimension = "SmokingStatusGroupBooking",
                        !.org_level = Region, !.measure_dict = measure_dict]
        /\ ret' = get_rates(df, "SmokingStatusGroupBooking", measure_dict, Region)
        /\ pre' = Held
        /\ UNCHANGED <<data_source, locations, pop_source, df, df_other>>

NextRates == GetRates

SpecRates == InitRates /\ [][NextRates]_vars

---------------------------------------------------------------------------
(* The Name Normalizer and merge_total_submitters called on tables the
   caller holds: both write into the objects they are given *)

RawNames == {CR(<<"LONDON">>), <<"NHS">> \o CR(<<"LONDON">>),
             <<"ALL", "SUBMITTERS">>, <<"BARTS", "HEALTH">>}

RawLabels == {
    [Dimension |-> "SmokingAtBooking", Measure |-> "Smoker"],
    [Dimension |-> "DeprivationDecileAtBooking", Measure |-> "2"],
    [Dimension |-> "SmokingStatusGroupBooking",
     Measure |-> "Missing Value/Value outside reporting parameters"] }

RawRows ==
    {Extend([Org_Name |-> n, Org_Code |-> "Y", Org_Level |-> Region, Value |-> 1], l) :
        n \in RawNames, l \in RawLabels}

AllSubmittersRows ==
    {[Org_Name |-> <<"All", "Submitters">>, Org_Code |-> "ALL",
      Org_Level |-> "National", Dimension |-> "SmokingStatusGroupBooking",
      Measure |-> m, Value |-> v] :
        m \in {"Smoker", "Missing value"}, v \in {0, MaxValue}}

InitNormalizer ==
    /\ data_source = Files(<<>>)
    /\ locations = LocationFile
    /\ pop_source = PopFiles
    /\ df \in SeqsUpTo(RawRows, MaxRows)
    /\ df_other \in SeqsUpTo(AllSubmittersRows, MaxRows)
    /\ pre = Held
    /\ call = NoArgs
    /\ ret = Return(<<>>)

MapOrgName ==
    /\ call' = [NoArgs EXCEPT !.op = "map_org_name"]
    /\ pre' = Held
    /\ df' = MapOrgNameRows(df)
    /\ ret' = Return(df')
    /\ UNCHANGED <<data_source, locations, pop_source, df_other>>

MakeValuesConsistant ==
    /\ call' = [NoArgs EXCEPT !.op = "make_values_consistant"]
    /\ pre' = Held
    /\ df' = MakeValuesConsistantRows(df)
    /\ ret' = Return(df')
    /\ UNCHANGED <<data_source, locations, pop_source, df_other>>

MergeTotalSubmitters ==
    /\ call' = [NoArgs EXCEPT !.op = "merge_total_submitters"]
    /\ pre' = Held
    /\ df_other' = AllSubmittersAfter(df_other)
    /\ ret' = Return(merge_total_submitters(df, df_other))
    /\ UNCHANGED <<data_source, locations, pop_source, df>>

NextNormalizer ==
    \/ MapOrgName
    \/ MakeValuesConsistant
    \/ MergeTotalSubmitters

SpecNormalizer == InitNormalizer /\ [][NextNormalizer]_vars

---------------------------------------------------------------------------
(* The Geo Joiner called on a table, against any reference file *)

LocationRows ==
    {[org_code |-> c, latitude |-> la, longitude |-> "-0.1"] :
        c \in {"Y56", "R1H"}, la \in {"51.5", "51.6"}}

CodedRows ==
    {[Org_Name |-> <<"BARTS", "HEALTH">>, Org_Code |-> c, Org_Level |-> "Provider",
      Dimension |-> "TotalBabies", Measure |-> "All", Value |-> 1] :
        c \in {"Y56", "R1H", "RX1"}}

InitJoin ==
    /\ data_source = Files(<<>>)
    /\ locations \in SeqsUpTo(LocationRows, MaxRows)
    /\ pop_source = PopFiles
    /\ df \in SeqsUpTo(CodedRows, MaxRows)
    /\ df_other = <<>>
    /\ pre = Held
    /\ call = NoArgs
    /\ ret = Return(<<>>)

JoinLatLonData ==
    /\ call' = [NoArgs EXCEPT !.op = "join_lat_lon_data"]
    /\ pre' = Held
    /\ ret' = Return(join_lat_lon_data(df))
    /\ UNCHANGED <<data_source, locations, pop_source, df, df_other>>

NextJoin == JoinLatLonData

SpecJoin == InitJoin /\ [][NextJoin]_vars

---------------------------------------------------------------------------
(* Properties of the Rate Calculator's ordinary path (SpecRates) *)

HasDuplicatePair(t) ==
    \E i, j \in 1..Len(t) :
        i # j /\ t[i].Org_Name = t[j].Org_Name /\ t[i].Measure = t[j].Measure

\* the requested (organisation level, dimension) pair has no configuration entry
Unconfigured ==
    \/ call.org_level \notin DOMAIN call.measure_dict
    \/ call.dimension \notin DOMAIN call.measure_dict[call.org_level]

\* the key whose lookup fails first
MissingKey ==
    IF call.org_level \notin DOMAIN call.measure_dict THEN call.org_level
    ELSE call.dimension

\* C1: in a table get_rates returns, every organisation whose denominator
\* measures sum to zero has the missing marker NaN as its Rate, whatever its
\* numerator sum is; never 0 and never infinity.
C1_ZeroDenominatorIsMissing ==
    (call.op = "get_rates" /\ ret.status = "ok") =>
        \A i \in 1..Len(ret.table) :
            RowSum(ret.table[i],
                   call.measure_dict[call.org_level][call.dimension].denominator)
                = Num(0)
            => ret.table[i].Rate = NaN

\* C2 as stated: a get_rates call for an unconfigured (level, dimension) pair
\* ends in the KeyError that names the missing key, and returns no table.
C2_UnconfiguredNamesMissingKey ==
    (call.op = "get_rates" /\ Unconfigured) =>
        /\ ret.status = "raise"
        /\ ret.table = <<>>
        /\ ret.error = "KeyError"
        /\ ret.key = MissingKey

\* C2 as amended: a get_rates call for an unconfigured (level, dimension) pair
\* always ends in an error and returns no table; the error is the KeyError
\* naming the missing key when the table holds no duplicate (organisation,
\* measure) pair, and the pivot's ValueError, raised first, when it holds one.
C2_UnconfiguredRaises ==
    (call.op = "get_rates" /\ Unconfigured) =>
        /\ ret.status = "raise"
        /\ ret.table = <<>>
        /\ ~HasDuplicatePair(pre.df) =>
               (ret.error = "KeyError" /\ ret.key = MissingKey)
        /\ HasDuplicatePair(pre.df) => ret.error = "ValueError"

\* an unconfigured request on a table of two distinct rows was refused with
\* the KeyError naming the organisation level
C2_Witness ==
    /\ call.op = "get_rates"
    /\ Unconfigured
    /\ Len(pre.df) = 2
    /\ ~HasDuplicatePair(pre.df)
    /\ ret.status = "raise"
    /\ ret.key = Region

\* C8: get_rates on a table with more than one row for the same (organisation
\* name, measure) pair raises and returns no table.
C8_DuplicatePairRaises ==
    (call.op = "get_rates" /\ HasDuplicatePair(pre.df)) =>
        (ret.status = "raise" /\ ret.table = <<>>)

\* a fully configured request on a table with a duplicate pair of different
\* values was refused by the pivot
C8_Witness ==
    /\ call.op = "get_rates"
    /\ ~Unconfigured
    /\ call.measure_dict[call.org_level][call.dimension].numerator = {"Smoker"}
    /\ Len(pre.df) = 2
    /\ HasDuplicatePair(pre.df)
    /\ pre.df[1].Value # pre.df[2].Value
    /\ ret.error = "ValueError"

---------------------------------------------------------------------------
(* Properties of the Name Normalizer (SpecNormalizer) *)

IsKey(name) == \E i \in 1..Len(name_dict) : name_dict[i].old = name

Canonical(name) == name_dict[CHOOSE i \in 1..Len(name_dict) : name_dict[i].old = name].new

\* C4: map_org_name turns a name equal to a dictionary key into its canonical
\* short form and returns every other name unchanged, a name that only
\* contains a key as a substring included.
C4_OnlyWholeNamesAreMapped ==
    call.op = "map_org_name" =>
        \A i \in 1..Len(pre.df) :
            ret.table[i].Org_Name =
                IF IsKey(pre.df[i].Org_Name) THEN Canonical(pre.df[i].Org_Name)
                ELSE pre.df[i].Org_Name

\* C5: after map_org_name(df), make_values_consistant(df) and
\* merge_total_submitters(df, df_other) the tables the caller passed in have
\* the columns and cell values they had before the call.
C5_InputsAreNotMutated ==
    call.op \in {"map_org_name", "make_values_consistant", "merge_total_submitters"}
        => (df = pre.df /\ df_other = pre.df_other)

---------------------------------------------------------------------------
(* Properties of the Geo Joiner (SpecJoin) *)

\* row r of the input survives as row x of the output: its own columns are
\* untouched, and latitude/longitude are null when its code has no match
JoinedFrom(x, r) ==
    /\ \A c \in DOMAIN r : x[c] = r[c]
    /\ (\A j \in 1..Len(locations) : locations[j].org_code # r.Org_Code)
           => (x.latitude = "NaN" /\ x.longitude = "NaN")

\* C6: join_lat_lon_data returns exactly one row per input row, in the same
\* multiplicity, whatever the reference table holds, or else raises: it
\* never returns a table with more rows than its input.
C6_OneRowPerInputRow ==
    call.op = "join_lat_lon_data" =>
        \/ ret.status = "raise"
        \/ /\ Len(ret.table) = Len(pre.df)
           /\ \A i \in 1..Len(pre.df) : JoinedFrom(ret.table[i], pre.df[i])

---------------------------------------------------------------------------
(* Properties of the entry points (Spec) *)

EntryPoints == {"return_data_for_map", "return_data_for_bar_chart",
                "return_data_for_special_bar_chart", "return_data_for_time_series"}

\* the organisation level the Row Filter of the last request is given
FilterLevel ==
    IF /\ call.op = "return_data_for_time_series"
       /\ call.dimension \in special_dimensions
       /\ call.org_level \in {"National", "Provider"}
    THEN Region ELSE call.org_level

\* the source rows the last request reads: one year's file, or every year's
SourceRows ==
    IF call.op = "return_data_for_time_series" THEN CombinedDf
    ELSE data_source[call.year]

\* source row r, once normalized, is what the last request asked for
Requested(r) ==
    /\ dimension_replace_dict(r.Dimension) = call.dimension
    /\ r.Org_Level = FilterLevel
    /\ (call.op = "return_data_for_bar_chart"
        \/ (call.op = "return_data_for_time_series"
            /\ call.dimension \notin special_dimensions))
           => ReplaceRegex(name_dict, r.Org_Name) = call.location

C7_ExactlyOneOfRateAndPercent ==
    (call.op = "return_data_for_map" /\ ret.status = "ok") =>
        \A i \in 1..Len(ret.table) :
            IF call.dimension \in special_dimensions
            THEN "Rate" \in DOMAIN ret.table[i] /\ "Percent" \notin DOMAIN ret.table[i]
            ELSE "Percent" \in DOMAIN ret.table[i] /\ "Rate" \notin DOMAIN ret.table[i]

\* C7 as amended: a special dimension yields a Rate and no Percent; an
\* ordinary dimension yields both, the Percent being the Rate times 100.
C7_RateAlwaysPercentIfOrdinary ==
    (call.op = "return_data_for_map" /\ ret.status = "ok") =>
        \A i \in 1..Len(ret.table) :
            /\ "Rate" \in DOMAIN ret.table[i]
            /\ IF call.dimension \in special_dimensions
               THEN "Percent" \notin DOMAIN ret.table[i]
               ELSE /\ "Percent" \in DOMAIN ret.table[i]
                    /\ ret.table[i].Percent = FMul(ret.table[i].Rate, 100)

\* a map request for an ordinary dimension returned a row with a defined,
\* non-zero Rate
C7_Witness ==
    /\ call.op = "return_data_for_map"
    /\ call.dimension \notin special_dimensions
    /\ ret.status = "ok"
    /\ Len(ret.table) = 1
    /\ ret.table[1].Rate.k = "num"
    /\ ret.table[1].Rate.n > 0

\* source row r is in table t: as a row of its own, or, in a pivoted table,
\* as the cell of its organisation and measure
Kept(r, t) ==
    \E j \in 1..Len(t) :
        /\ t[j].Org_Name = ReplaceRegex(name_dict, r.Org_Name)
        /\ IF "Value" \in DOMAIN t[j]
           THEN /\ t[j].Value = r.Value
                /\ t[j].Measure = r.Measure
                /\ t[j].Dimension = call.dimension
           ELSE /\ r.Measure \in DOMAIN t[j]
                /\ t[j][r.Measure] = Num(r.Value)

\* C9: in every entry point the Row Filter sees normalized labels: a source
\* row whose raw dimension label is the requested dimension or a historical
\* alias of it, and whose organisation level (and location) match, is kept
\* in the result.
C9_FilterSeesNormalizedLabels ==
    (call.op \in EntryPoints /\ ret.status = "ok") =>
        \A i \in 1..Len(SourceRows) :
            Requested(SourceRows[i]) => Kept(SourceRows[i], ret.table)

\* the population total of an organisation in the sheet of one year
PopTotal(year, name) ==
    LET m == SelectSeq(PopAgg(pop_source[year]), LAMBDA r : r[PopName] = name)
    IN IF m = <<>> THEN NaN ELSE m[1].Total

\* C10: in the time series of a special dimension the Rate of every row is
\* the row's Value over the population total of the row's own year, times
\* 1000.
C10_RateUsesPopulationOfOwnYear ==
    (call.op = "return_data_for_time_series"
     /\ call.dimension \in special_dimensions) =>
        \A i \in 1..Len(ret.table) :
            ret.table[i].Rate =
                FMul(FDiv(Num(ret.table[i].Value),
                          PopTotal(ret.table[i].year, ret.table[i].Org_Name)), 1000)

=============================================================================
